---- MODULE Spec2Model ----
(***************************************************************************)
(* The JS transport bridge and event dispatcher of whatsapp-rust-node:     *)
(* class WaBot of src/bot.ts (an EventEmitter wrapping the native engine), *)
(* its WebSocket channel and the two callbacks the engine calls.           *)
(*                                                                         *)
(* JavaScript runs every callback to completion on one event loop, so each *)
(* callback (frame callback, event callback, each ws handler) is one       *)
(* action.  The channel's own state (readyState of the ws WebSocket) is    *)
(* kept apart from the bridge's belief about it (isWsOpen).                *)
(***************************************************************************)
EXTENDS Integers, Sequences, FiniteSets, TLC

\* ------------------------------------------------------------- bounds
\* Frame-callback invocations made by the engine (with or without error).
MaxFrames == 3
\* 'message' events the channel delivers.
MaxMessages == 2
\* Channels start() may create (connectWebSocket calls).
MaxChannels == 2
\* Listeners registered with on(), all tags together.
MaxListeners == 2
\* Event-callback invocations made by the engine.
MaxEvents == 2
\* Notifications of the two engine callbacks together, where both run.
MaxNotifications == 2
\* Calls of bot.sendMessage made by the application.
MaxSends == 2

\* ------------------------------------------------------------- values
\* this.ws = null (bot.ts:9)
NoWs == 0

Channels == 1..MaxChannels

\* Byte contents of inbound frames; two equal frames may follow each other.
Bytes == {"b0", "b1"}

\* Subscriber callbacks.  "hx" is a handler that raises when invoked.
Handlers == {"h1", "h2", "hx"}

Throws(h) == h = "hx"

\* The variants of the event taxonomy that carry a name of their own.
ModeledTags == {"PairingQrCode", "Message", "Connected", "LoggedOut",
                "SerializationError"}

\* The event names in play: one modeled variant, one tag the taxonomy does
\* not know ("Future"), the catch-all's name, and the two names bot.ts
\* itself emits under.
AllTags == {"PairingQrCode", "Future", "Other", "unknown_event", "error"}

\* An Error object: its message and, for a parse failure, the raw payload
\* the message embeds.
ErrorObj(msg, raw) == [kind |-> "Error", message |-> msg, raw |-> raw]

EngineError == ErrorObj("engine", <<>>)

TransportError == ErrorObj("socket", <<>>)

\* An exception that left callback cb (handling notification ev, 0 when
\* cb is not the event callback).
Fault(cb, ev) == [cb |-> cb, ev |-> ev]

VARIABLES
  ws,                  \* this.ws: NoWs or the channel last created
  isWsOpen,            \* this.isWsOpen
  outgoingFrameQueue,  \* this.outgoingFrameQueue
  readyState,          \* readyState of each channel created so far
  nChannels,           \* channels created so far
  nFrameCalls,         \* frame-callback invocations so far
  nProduced,           \* frames produced so far (frame k is the k-th)
  wsSendCalls,         \* every ws.send call, in order
  nativeCalls,         \* calls into the engine, in order
  wsMessages,          \* payloads of the 'message' events, in order
  openAt,              \* frames produced when the open handler ran, or -1
  listeners,           \* EventEmitter registry: tag -> handlers in order
  nListeners,          \* listeners registered so far, all tags together
  calls,               \* handler invocations, in order
  emits,               \* emit calls of the two engine callbacks, in order
  emitted,             \* notifications the engine passed to the event callback
  faults,              \* exceptions that left a callback, in order
  sendMessageCalls     \* calls of bot.sendMessage with what each returned

transportVars == <<ws, isWsOpen, outgoingFrameQueue, readyState, nChannels,
                   nFrameCalls, nProduced, wsSendCalls, nativeCalls,
                   wsMessages, openAt>>

dispatchVars == <<listeners, nListeners, calls, emits, emitted, faults>>

appVars == <<sendMessageCalls>>

vars == <<transportVars, dispatchVars, appVars>>

Init ==
  /\ ws = NoWs
  /\ isWsOpen = FALSE
  /\ outgoingFrameQueue = <<>>
  /\ readyState = <<>>
  /\ nChannels = 0
  /\ nFrameCalls = 0
  /\ nProduced = 0
  /\ wsSendCalls = <<>>
  /\ nativeCalls = <<>>
  /\ wsMessages = <<>>
  /\ openAt = -1
  /\ listeners = [t \in AllTags |-> <<>>]
  /\ nListeners = 0
  /\ calls = <<>>
  /\ emits = <<>>
  /\ emitted = <<>>
  /\ faults = <<>>
  /\ sendMessageCalls = <<>>

\* ------------------------------------------------------------ emitter
\* Position of the first handler of hs that raises, 0 when none does.
FirstThrow(hs) ==
  IF \E i \in 1..Len(hs) : Throws(hs[i])
  THEN CHOOSE i \in 1..Len(hs) :
         Throws(hs[i]) /\ \A j \in 1..(i - 1) : ~Throws(hs[j])
  ELSE 0

\* EventEmitter.emit(tag, arg) as WaBot inherits it: the listeners of tag
\* are called in registration order with arg; a listener that raises ends
\* the emit, its exception propagating to the caller; emit("error", ...)
\* with no listener raises the error itself.  The result holds the
\* invocations made (ev: the notification being handled, 0 outside the
\* event callback) and whether an exception propagated.
Emit(tag, arg, ev) ==
  LET hs == listeners[tag]
      k  == FirstThrow(hs)
      n  == IF k = 0 THEN Len(hs) ELSE k
  IN IF tag = "error" /\ hs = <<>>
     THEN [calls |-> <<>>, threw |-> TRUE]
     ELSE [calls |-> [i \in 1..n |->
                        [ev |-> ev, tag |-> tag, h |-> hs[i], arg |-> arg]],
           threw |-> k # 0]

\* bot.on(tag, h): EventEmitter appends h to the listeners of tag.
On(tag, h) ==
  /\ nListeners < MaxListeners
  /\ nListeners' = nListeners + 1
  /\ listeners' = [listeners EXCEPT ![tag] = Append(@, h)]
  /\ UNCHANGED <<transportVars, calls, emits, emitted, faults>>
  /\ UNCHANGED appVars

\* ---------------------------------------------------------- transport
\* One ws.send(frame) call on channel c.  The ws library raises while the
\* channel is CONNECTING, transmits while it is OPEN and, given no
\* callback, discards the data silently once it is CLOSING or CLOSED.
SendCall(frame, c, open) ==
  [frame |-> frame, ch |-> c, open |-> open, rs |-> readyState[c]]

\* The bridge's connection state is Open: this.isWsOpen && this.ws.
ConnectionOpen == isWsOpen /\ ws # NoWs

\* Lines 50-54 of the frame callback: send when the bridge believes the
\* channel open, queue otherwise.  A send on a CONNECTING channel raises
\* out of the callback.
SubmitFrame_NoOpenCheck(frame) ==
  IF ws # NoWs
  THEN /\ wsSendCalls' = Append(wsSendCalls, SendCall(frame, ws, isWsOpen))
       /\ faults' = IF readyState[ws] = "CONNECTING"
                    THEN Append(faults, Fault("frame", 0)) ELSE faults
       /\ UNCHANGED outgoingFrameQueue
  ELSE /\ outgoingFrameQueue' = Append(outgoingFrameQueue, frame)
       /\ UNCHANGED <<wsSendCalls, faults>>

SubmitFrame(frame) ==
  IF ConnectionOpen
  THEN /\ wsSendCalls' = Append(wsSendCalls, SendCall(frame, ws, isWsOpen))
       /\ faults' = IF readyState[ws] = "CONNECTING"
                    THEN Append(faults, Fault("frame", 0)) ELSE faults
       /\ UNCHANGED outgoingFrameQueue
  ELSE /\ outgoingFrameQueue' = Append(outgoingFrameQueue, frame)
       /\ UNCHANGED <<wsSendCalls, faults>>

\* The frame callback the constructor hands to the engine: an engine error
\* is re-emitted as 'error' and the frame ignored; a frame is submitted.
\* Frames are Buffers, distinct objects: frame k is the k-th produced.
FrameCallback_NoReturn(err) ==
  /\ nFrameCalls < MaxFrames
  /\ nFrameCalls' = nFrameCalls + 1
  /\ IF err
     THEN LET r == Emit("error", EngineError, 0)
          IN /\ calls' = calls \o r.calls
             /\ emits' = Append(emits, [ev |-> 0, tag |-> "error",
                                         arg |-> EngineError,
                                         hs |-> listeners["error"]])
             /\ IF r.threw
                THEN /\ faults' = Append(faults, Fault("frame", 0))
                     /\ UNCHANGED <<nProduced, wsSendCalls, outgoingFrameQueue>>
                ELSE /\ nProduced' = nProduced + 1
                     /\ SubmitFrame(nProduced + 1)
     ELSE /\ nProduced' = nProduced + 1
          /\ SubmitFrame(nProduced + 1)
          /\ UNCHANGED <<calls, emits>>
  /\ UNCHANGED <<ws, isWsOpen, readyState, nChannels, nativeCalls,
                 wsMessages, openAt, listeners, nListeners, emitted>>
  /\ UNCHANGED appVars

FrameCallback(err) ==
  /\ nFrameCalls < MaxFrames
  /\ nFrameCalls' = nFrameCalls + 1
  /\ IF err
     THEN LET r == Emit("error", EngineError, 0)
          IN /\ calls' = calls \o r.calls
             /\ emits' = Append(emits, [ev |-> 0, tag |-> "error",
                                         arg |-> EngineError,
                                         hs |-> listeners["error"]])
             /\ faults' = IF r.threw THEN Append(faults, Fault("frame", 0)) ELSE faults
             /\ UNCHANGED <<nProduced, wsSendCalls, outgoingFrameQueue>>
     ELSE /\ nProduced' = nProduced + 1
          /\ SubmitFrame(nProduced + 1)
          /\ UNCHANGED <<calls, emits>>
  /\ UNCHANGED <<ws, isWsOpen, readyState, nChannels, nativeCalls,
                 wsMessages, openAt, listeners, nListeners, emitted>>
  /\ UNCHANGED appVars

\* connectWebSocket, as start() calls it: a new channel replaces this.ws
\* and the four handlers are attached to it.
connectWebSocket ==
  /\ nChannels < MaxChannels
  /\ nChannels' = nChannels + 1
  /\ ws' = nChannels + 1
  /\ readyState' = Append(readyState, "CONNECTING")

\* start(): connectWebSocket(), then the engine's main loop is awaited.
Start ==
  /\ connectWebSocket
  /\ UNCHANGED <<isWsOpen, outgoingFrameQueue, nFrameCalls, nProduced,
                 wsSendCalls, nativeCalls, wsMessages, openAt, dispatchVars>>
  /\ UNCHANGED appVars

\* The flush loop of the 'open' handler: shift() and send until the queue
\* is empty, every frame a Buffer and so truthy.  A send on a channel still
\* CONNECTING raises and ends the loop, the shifted frame gone and the
\* rest left queued.
FlushSends_Lifo(queue, c) ==
  [i \in 1..Len(queue) |->
     [frame |-> queue[Len(queue) + 1 - i], ch |-> c, open |-> isWsOpen',
      rs |-> readyState'[c]]]

FlushSends_DropLast(queue, c) ==
  [i \in 1..(Len(queue) - 1) |->
     [frame |-> queue[i], ch |-> c, open |-> isWsOpen',
      rs |-> readyState'[c]]]

FlushSends_SkipFirst(queue, c) ==
  [i \in 1..(Len(queue) - 1) |->
     [frame |-> queue[i + 1], ch |-> c, open |-> isWsOpen',
      rs |-> readyState'[c]]]

FlushSends(queue, c) ==
  IF queue # <<>> /\ readyState'[c] = "CONNECTING"
  THEN <<[frame |-> queue[1], ch |-> c, open |-> isWsOpen',
          rs |-> "CONNECTING"]>>
  ELSE [i \in 1..Len(queue) |->
          [frame |-> queue[i], ch |-> c, open |-> isWsOpen',
           rs |-> readyState'[c]]]

FlushRest_KeepLast(queue, c) ==
  IF queue = <<>> THEN <<>> ELSE <<queue[Len(queue)]>>

FlushRest(queue, c) ==
  IF queue # <<>> /\ readyState'[c] = "CONNECTING" THEN Tail(queue) ELSE <<>>

FlushThrows(queue, c) == queue # <<>> /\ readyState'[c] = "CONNECTING"

\* this.nativeBot.notifyConnected() as the open handler calls it, after
\* its flush loop; sends is the number of ws.send calls made before it.
NotifyConnectedCall_BeforeFlush ==
  [op |-> "notifyConnected", sends |-> Len(wsSendCalls)]

NotifyConnectedCall ==
  [op |-> "notifyConnected", sends |-> Len(wsSendCalls')]

\* Channel c becomes OPEN and emits 'open'; the handler runs.
OnWsOpen(c) ==
  /\ c \in 1..nChannels
  /\ readyState[c] = "CONNECTING"
  /\ readyState' = [readyState EXCEPT ![c] = "OPEN"]
  /\ isWsOpen' = TRUE
  /\ wsSendCalls' = wsSendCalls \o FlushSends(outgoingFrameQueue, ws)
  /\ outgoingFrameQueue' = FlushRest(outgoingFrameQueue, ws)
  /\ IF FlushThrows(outgoingFrameQueue, ws)
     THEN /\ faults' = Append(faults, Fault("open", 0))
          /\ UNCHANGED nativeCalls
     ELSE /\ nativeCalls' = Append(nativeCalls, NotifyConnectedCall)
          /\ UNCHANGED faults
  /\ openAt' = nProduced
  /\ UNCHANGED <<ws, nChannels, nFrameCalls, nProduced, wsMessages,
                 listeners, nListeners, calls, emits, emitted>>
  /\ UNCHANGED appVars

\* Channel c delivers a 'message' event carrying data; the handler passes
\* it to receiveFrame.
OnWsMessage_Dedup(c, data) ==
  /\ c \in 1..nChannels
  /\ readyState[c] \in {"OPEN", "CLOSING"}
  /\ Len(wsMessages) < MaxMessages
  /\ wsMessages' = Append(wsMessages, data)
  /\ nativeCalls' =
        IF wsMessages # <<>> /\ wsMessages[Len(wsMessages)] = data
        THEN nativeCalls
        ELSE Append(nativeCalls, [op |-> "receiveFrame", data |-> data])
  /\ UNCHANGED <<ws, isWsOpen, outgoingFrameQueue, readyState, nChannels,
                 nFrameCalls, nProduced, wsSendCalls, openAt, dispatchVars>>
  /\ UNCHANGED appVars

OnWsMessage(c, data) ==
  /\ c \in 1..nChannels
  /\ readyState[c] \in {"OPEN", "CLOSING"}
  /\ Len(wsMessages) < MaxMessages
  /\ wsMessages' = Append(wsMessages, data)
  /\ nativeCalls' = Append(nativeCalls, [op |-> "receiveFrame", data |-> data])
  /\ UNCHANGED <<ws, isWsOpen, outgoingFrameQueue, readyState, nChannels,
                 nFrameCalls, nProduced, wsSendCalls, openAt, dispatchVars>>
  /\ UNCHANGED appVars

\* The channel leaves OPEN (the peer's close frame, the socket ending):
\* the ws library moves readyState to CLOSING and emits 'close' only once
\* the socket is gone, in a later turn of the event loop.
ChannelClosing(c) ==
  /\ c \in 1..nChannels
  /\ readyState[c] = "OPEN"
  /\ readyState' = [readyState EXCEPT ![c] = "CLOSING"]
  /\ UNCHANGED <<ws, isWsOpen, outgoingFrameQueue, nChannels, nFrameCalls,
                 nProduced, wsSendCalls, nativeCalls, wsMessages, openAt,
                 dispatchVars>>
  /\ UNCHANGED appVars

\* Channel c fails (the handshake, or the open socket): the ws library
\* moves it to CLOSING and emits 'error'; the handler re-emits on the bot.
OnWsError(c) ==
  /\ c \in 1..nChannels
  /\ readyState[c] \in {"CONNECTING", "OPEN"}
  /\ readyState' = [readyState EXCEPT ![c] = "CLOSING"]
  /\ LET r == Emit("error", TransportError, 0)
     IN /\ calls' = calls \o r.calls
        /\ faults' = IF r.threw THEN Append(faults, Fault("wsError", 0)) ELSE faults
  /\ UNCHANGED <<ws, isWsOpen, outgoingFrameQueue, nChannels, nFrameCalls,
                 nProduced, wsSendCalls, nativeCalls, wsMessages, openAt,
                 listeners, nListeners, emits, emitted>>
  /\ UNCHANGED appVars

\* Channel c emits 'close'; the handler runs.
OnWsClose_Reconnect(c) ==
  /\ c \in 1..nChannels
  /\ readyState[c] = "CLOSING"
  /\ isWsOpen' = FALSE
  /\ nativeCalls' = Append(nativeCalls, [op |-> "notifyDisconnected"])
  /\ IF nChannels < MaxChannels
     THEN /\ nChannels' = nChannels + 1
          /\ ws' = nChannels + 1
          /\ readyState' =
               Append([readyState EXCEPT ![c] = "CLOSED"], "CONNECTING")
     ELSE /\ readyState' = [readyState EXCEPT ![c] = "CLOSED"]
          /\ UNCHANGED <<ws, nChannels>>
  /\ UNCHANGED <<outgoingFrameQueue, nFrameCalls, nProduced,
                 wsSendCalls, wsMessages, openAt, dispatchVars>>
  /\ UNCHANGED appVars

OnWsClose(c) ==
  /\ c \in 1..nChannels
  /\ readyState[c] = "CLOSING"
  /\ readyState' = [readyState EXCEPT ![c] = "CLOSED"]
  /\ isWsOpen' = FALSE
  /\ nativeCalls' = Append(nativeCalls, [op |-> "notifyDisconnected"])
  /\ UNCHANGED <<ws, outgoingFrameQueue, nChannels, nFrameCalls, nProduced,
                 wsSendCalls, wsMessages, openAt, dispatchVars>>
  /\ UNCHANGED appVars

\* --------------------------------------------------------- dispatcher
\* An event string is a sequence of JSON tokens; a member token is one
\* "key":value pair of an object, its value a string ("" the empty one).
LB == [t |-> "{"]

RB == [t |-> "}"]

CM == [t |-> ","]

NullTok == [t |-> "null"]

Member(k, v) == [t |-> "member", key |-> k, val |-> v]

\* The event strings the engine is taken to send: the PairingQrCode event
\* of the spec's scenario, an event of a variant the bridge does not know,
\* an event with no type, the JSON text null, and a truncated text.
QrText == <<LB, Member("type", "PairingQrCode"), CM, Member("data", "ABC123/60"), RB>>

FutureText == <<LB, Member("type", "Future"), CM, Member("data", "raw"), RB>>

UntaggedText == <<LB, Member("data", "raw"), RB>>

NullText == <<NullTok>>

TruncatedText == <<LB, Member("type", "PairingQrCode"), CM>>

EventTexts == {QrText, FutureText, UntaggedText, NullText, TruncatedText}

\* The callback's second argument when the engine passes no string at all
\* (null or undefined), and the test !eventJson, true of it and of "".
NullPayload == <<[t |-> "no-string"]>>

Falsy(eventJson) == eventJson = <<>> \/ eventJson = NullPayload

\* The members between the braces: member (, member)*, or nothing.
IsMemberList(ms) ==
  \/ ms = <<>>
  \/ /\ Len(ms) % 2 = 1
     /\ \A i \in 1..Len(ms) :
          ms[i].t = (IF i % 2 = 1 THEN "member" ELSE ",")

\* The value of key k in the members ms: the last member named k wins, a
\* key not there reads as undefined.
Field(ms, k) ==
  LET at == {i \in 1..Len(ms) : ms[i].t = "member" /\ ms[i].key = k}
  IN IF at = {} THEN "undefined"
     ELSE ms[CHOOSE i \in at : \A j \in at : j <= i].val

\* JSON.parse(text): the parsed value, or a SyntaxError (ok = FALSE).
JSONParse(text) ==
  IF text = <<NullTok>>
  THEN [ok |-> TRUE, value |-> [kind |-> "null"]]
  ELSE IF /\ Len(text) >= 2
          /\ text[1] = LB
          /\ text[Len(text)] = RB
          /\ IsMemberList(SubSeq(text, 2, Len(text) - 1))
       THEN LET ms == SubSeq(text, 2, Len(text) - 1)
            IN [ok |-> TRUE,
                value |-> [kind |-> "object", type |-> Field(ms, "type"),
                           data |-> Field(ms, "data")]]
       ELSE [ok |-> FALSE]

\* if (event.type): a string is truthy unless empty; undefined is not.
Truthy(v) == v # "undefined" /\ v # ""

\* The name the event is emitted under (bot.ts:32-36).
EventName_Other(event) ==
  IF event.type \in ModeledTags THEN event.type ELSE "Other"

EventName(event) ==
  IF Truthy(event.type) THEN event.type ELSE "unknown_event"

\* The argument the listeners get: event.data under the event's own type,
\* the whole event under "unknown_event".
EventArg(event) ==
  IF Truthy(event.type)
  THEN [kind |-> "data", v |-> event.data]
  ELSE [kind |-> "event", type |-> event.type, data |-> event.data]

ParseError(eventJson) == ErrorObj("Failed to parse event JSON", eventJson)

EmptyError == ErrorObj("Received an empty event string from Rust.", <<>>)

\* One emit call of the event callback, as the emits log keeps it: the
\* name, the argument and the listeners of that name at the call.
EmitCall(tag, arg, ev) ==
  [ev |-> ev, tag |-> tag, arg |-> arg, hs |-> listeners[tag]]

\* A notification as the emitted log keeps it: the callback's arguments.
Notification(err, eventJson) == [err |-> err, json |-> eventJson]

\* The emit("error", e) that ends a branch of the event callback: what it
\* raises leaves the callback.
ReportError(e, ev) ==
  LET r == Emit("error", e, ev)
  IN [emits |-> <<EmitCall("error", e, ev)>>, calls |-> r.calls,
      threw |-> r.threw]

\* The try block (bot.ts:30-42): parse, emit under the event's name; any
\* exception inside it (a SyntaxError, reading .type of null, a listener
\* that raised) lands in the catch, which reports a parse failure.
TryDispatch(eventJson, ev) ==
  LET p == JSONParse(eventJson)
  IN IF ~p.ok THEN ReportError(ParseError(eventJson), ev)
     ELSE IF p.value.kind = "null" THEN ReportError(ParseError(eventJson), ev)
     ELSE LET tag == EventName(p.value)
              arg == EventArg(p.value)
              r1  == Emit(tag, arg, ev)
              r2  == ReportError(ParseError(eventJson), ev)
          IN IF r1.threw
             THEN [emits |-> <<EmitCall(tag, arg, ev)>> \o r2.emits,
                   calls |-> r1.calls \o r2.calls, threw |-> r2.threw]
             ELSE [emits |-> <<EmitCall(tag, arg, ev)>>, calls |-> r1.calls,
                   threw |-> FALSE]

\* The body of the event callback (bot.ts:18-43) for notification ev.
Dispatch_ErrNoReturn(err, eventJson, ev) ==
  LET r1 == ReportError(EngineError, ev)
      r2 == IF Falsy(eventJson) THEN ReportError(EmptyError, ev)
            ELSE TryDispatch(eventJson, ev)
  IN IF ~err THEN r2
     ELSE IF r1.threw THEN r1
     ELSE [emits |-> r1.emits \o r2.emits, calls |-> r1.calls \o r2.calls,
           threw |-> r2.threw]

Dispatch_DropEmpty(err, eventJson, ev) ==
  IF err THEN ReportError(EngineError, ev)
  ELSE IF Falsy(eventJson) THEN [emits |-> <<>>, calls |-> <<>>, threw |-> FALSE]
  ELSE TryDispatch(eventJson, ev)

Dispatch(err, eventJson, ev) ==
  IF err THEN ReportError(EngineError, ev)
  ELSE IF Falsy(eventJson) THEN ReportError(EmptyError, ev)
  ELSE TryDispatch(eventJson, ev)

\* The event callback the constructor hands to the engine.  The engine's
\* notifications reach it one at a time, in the order the engine made them.
EventCallback_Coalesce(err, eventJson) ==
  /\ Len(emitted) < MaxEvents
  /\ emitted' = Append(emitted, Notification(err, eventJson))
  /\ LET ev == Len(emitted) + 1
         r  == Dispatch(err, eventJson, ev)
         same == /\ emitted # <<>>
                 /\ emitted[Len(emitted)].err = err
                 /\ emitted[Len(emitted)].json = eventJson
     IN /\ calls' = IF same THEN calls ELSE calls \o r.calls
        /\ emits' = IF same THEN emits ELSE emits \o r.emits
        /\ faults' = IF r.threw /\ ~same
                     THEN Append(faults, Fault("event", ev)) ELSE faults
  /\ UNCHANGED <<transportVars, listeners, nListeners>>
  /\ UNCHANGED appVars

EventCallback(err, eventJson) ==
  /\ Len(emitted) < MaxEvents
  /\ emitted' = Append(emitted, Notification(err, eventJson))
  /\ LET ev == Len(emitted) + 1
         r  == Dispatch(err, eventJson, ev)
     IN /\ calls' = calls \o r.calls
        /\ emits' = emits \o r.emits
        /\ faults' = IF r.threw
                     THEN Append(faults, Fault("event", ev)) ELSE faults
  /\ UNCHANGED <<transportVars, listeners, nListeners>>
  /\ UNCHANGED appVars

\* ------------------------------------------------------- sendMessage
\* What the engine's sendMessage promise settles to: a message id, or a
\* rejection.
Resolved(id) == [ok |-> TRUE, v |-> id]

Rejected(e) == [ok |-> FALSE, v |-> e]

\* A jid string as the parts the template literal joins.
JidString(jid) == <<jid.user, "@", jid.server>>

\* The engine parses the jid first and rejects one it cannot parse;
\* whether a send to a well-formed jid succeeds is the network's matter.
EngineOutcomes(toJid) ==
  IF Len(toJid) = 3 /\ toJid[2] = "@"
  THEN {Resolved("3EB0A1"), Rejected("send failed")}
  ELSE {Rejected("Invalid JID")}

\* nativeBot.sendMessage(toJid, text), settling to outcome.
EngineSendMessage(toJid, text, outcome) ==
  [op |-> "sendMessage", toJid |-> toJid, text |-> text, outcome |-> outcome]

\* bot.sendMessage(toJid, text): the bridge passes the call through and
\* returns the engine's promise (bot.ts:102-104).
SendMessageCall_Retry(toJid, text, outcome) ==
  /\ nativeCalls' = nativeCalls \o
       (IF outcome.ok
        THEN <<EngineSendMessage(toJid, text, outcome)>>
        ELSE <<EngineSendMessage(toJid, text, outcome),
               EngineSendMessage(toJid, text, outcome)>>)
  /\ sendMessageCalls' = Append(sendMessageCalls,
       [toJid |-> toJid, text |-> text, result |-> outcome])

SendMessageCall(toJid, text, outcome) ==
  /\ nativeCalls' = Append(nativeCalls, EngineSendMessage(toJid, text, outcome))
  /\ sendMessageCalls' = Append(sendMessageCalls,
       [toJid |-> toJid, text |-> text, result |-> outcome])

\* The application calls bot.sendMessage.
SendMessage(toJid, text, outcome) ==
  /\ Len(sendMessageCalls) < MaxSends
  /\ outcome \in EngineOutcomes(toJid)
  /\ SendMessageCall(toJid, text, outcome)
  /\ UNCHANGED <<ws, isWsOpen, outgoingFrameQueue, readyState, nChannels,
                 nFrameCalls, nProduced, wsSendCalls, wsMessages, openAt,
                 dispatchVars>>

\* --------------------------------------------------- Message listener
\* The texts the listener computes on are sequences of characters.
Ping == <<"p", "i", "n", "g">>

Pong == <<"p", "o", "n", "g", "!">>

Media == <<"<", "M", "e", "d", "i", "a", ">">>

\* textContent: a string, or absent (a media message).
NoText == [present |-> FALSE, str |-> <<>>]

Text(str) == [present |-> TRUE, str |-> str]

LowerOf(ch) ==
  CASE ch = "P" -> "p"
    [] ch = "I" -> "i"
    [] ch = "N" -> "n"
    [] ch = "G" -> "g"
    [] ch = "M" -> "m"
    [] OTHER -> ch

ToLowerCase(str) == [i \in 1..Len(str) |-> LowerOf(str[i])]

IsWhiteSpace(ch) == ch \in {" ", "\t", "\n"}

RECURSIVE TrimStart(_)
TrimStart(str) ==
  IF str # <<>> /\ IsWhiteSpace(Head(str)) THEN TrimStart(Tail(str)) ELSE str

RECURSIVE TrimEnd(_)
TrimEnd(str) ==
  IF str # <<>> /\ IsWhiteSpace(str[Len(str)])
  THEN TrimEnd(SubSeq(str, 1, Len(str) - 1))
  ELSE str

Trim(str) == TrimEnd(TrimStart(str))

\* The three listeners of the repository: the one main registers with
\* bot.on("Message"), the Message branch of the inline event callback, and
\* the Message case of the example.
Variants == {"bot.on", "inline", "example"}

\* textContent || "<Media>" (textContent ?? "<Media>" in the example,
\* which keeps an empty string).
TextOrMedia(variant, textContent) ==
  IF ~textContent.present THEN Media
  ELSE IF textContent.str = <<>> /\ variant # "example" THEN Media
  ELSE textContent.str

\* text.toLowerCase().trim() === "ping"
IsPing_NoTrim(text) == ToLowerCase(text) = Ping

IsPing(text) == Trim(ToLowerCase(text)) = Ping

\* The chat the reply goes to, as a jid string.
ChatJidString(info) == JidString(info.source.chat)

UserJid == [user |-> "5511999", server |-> "s.whatsapp.net"]

GroupJid == [user |-> "120363", server |-> "g.us"]

TextContents ==
  {NoText, Text(<<>>), Text(Ping), Text(<<"P", "I", "N", "G">>),
   Text(<<" ", "P", "i", "n", "G", "\n">>), Text(<<"p", "i", " ", "n", "g">>),
   Text(<<"p", "o", "n", "g">>), Text(Media)}

\* The Message events: sent by the user, in the chat with them or in a
\* group.
MessageData ==
  {[info |-> [source |-> [chat |-> c, sender |-> UserJid]], textContent |-> t] :
     c \in {UserJid, GroupJid}, t \in TextContents}

\* The Message listener runs on data.  The variant registered with bot.on
\* sends through the bridge, the other two call the engine themselves.
MessageListener(variant, data, outcome) ==
  /\ Len(calls) < MaxEvents
  /\ calls' = Append(calls, [ev |-> Len(calls) + 1, tag |-> "Message",
                             h |-> variant, arg |-> data])
  /\ LET text == TextOrMedia(variant, data.textContent)
         chatJidString == ChatJidString(data.info)
     IN IF IsPing(text)
        THEN /\ outcome \in EngineOutcomes(chatJidString)
             /\ IF variant = "bot.on"
                THEN SendMessageCall(chatJidString, Pong, outcome)
                ELSE /\ nativeCalls' = Append(nativeCalls,
                          EngineSendMessage(chatJidString, Pong, outcome))
                     /\ UNCHANGED sendMessageCalls
        ELSE /\ outcome = Rejected("none")    \* no call, nothing to settle
             /\ UNCHANGED <<nativeCalls, sendMessageCalls>>
  /\ UNCHANGED <<ws, isWsOpen, outgoingFrameQueue, readyState, nChannels,
                 nFrameCalls, nProduced, wsSendCalls, wsMessages, openAt,
                 listeners, nListeners, emits, emitted, faults>>

\* The on(tag, h) calls made: any handler for the modeled variant, a
\* returning and a raising one for the unknown variant and for 'error',
\* and one for the catch-all's name.
Registrations ==
  ({"PairingQrCode"} \X Handlers)
    \cup ({"Future", "error"} \X {"h1", "hx"})
    \cup {<<"Other", "h1">>}

\* The bridge as its callers run it (main of the example: one bot, one
\* start()): the engine produces frames and the one channel lives its life.
Next ==
  \/ \E err \in BOOLEAN : FrameCallback(err)
  \/ (ws = NoWs /\ Start)
  \/ \E c \in Channels : OnWsOpen(c)
  \/ \E c \in Channels, data \in Bytes : OnWsMessage(c, data)
  \/ \E c \in Channels : ChannelClosing(c)
  \/ \E c \in Channels : OnWsError(c)
  \/ \E c \in Channels : OnWsClose(c)
  \/ \E reg \in {r \in Registrations : r[1] = "error"} : On(reg[1], reg[2])

Spec == Init /\ [][Next]_vars

\* The dispatcher alone: listeners are registered and the engine sends
\* notifications (an error, an empty string, or an event string).
NextDispatch ==
  \/ \E reg \in Registrations : On(reg[1], reg[2])
  \/ \E eventJson \in EventTexts \cup {<<>>} : EventCallback(FALSE, eventJson)
  \/ EventCallback(TRUE, <<>>)

\* The bridge when the application calls start() again: every start()
\* runs connectWebSocket, whatever became of the channels before.
NextRestart ==
  \/ FrameCallback(FALSE)
  \/ Start
  \/ \E c \in Channels : OnWsOpen(c)
  \/ \E c \in Channels : OnWsMessage(c, "b0")
  \/ \E c \in Channels : ChannelClosing(c)
  \/ \E c \in Channels : OnWsClose(c)

SpecRestart == Init /\ [][NextRestart]_vars

SpecDispatch == Init /\ [][NextDispatch]_vars

\* The two engine callbacks with every combination of their arguments:
\* an error or none, and for the event callback a payload that decodes,
\* the empty string, or no string.
ErrorRegistrations ==
  {<<"PairingQrCode", "h1">>, <<"error", "h1">>, <<"error", "hx">>}

NextErrors ==
  \/ \E reg \in ErrorRegistrations : On(reg[1], reg[2])
  \/ /\ nFrameCalls + Len(emitted) < MaxNotifications
     /\ \E err \in BOOLEAN, eventJson \in {QrText, <<>>, NullPayload} :
          EventCallback(err, eventJson)
  \/ /\ nFrameCalls + Len(emitted) < MaxNotifications
     /\ \E err \in BOOLEAN : FrameCallback(err)

SpecErrors == Init /\ [][NextErrors]_vars

AllOutcomes == {Resolved("3EB0A1"), Rejected("send failed"),
                Rejected("Invalid JID"), Rejected("none")}

\* Message events reach the Message listener.
NextPing ==
  \E variant \in Variants, data \in MessageData, outcome \in AllOutcomes :
    MessageListener(variant, data, outcome)

SpecPing == Init /\ [][NextPing]_vars

\* The application sends messages through the bridge.
SendJids == {JidString(UserJid), JidString(GroupJid), <<"5511999">>}

SendTexts == {Pong, <<"h", "i">>, <<>>}

NextSend ==
  \E toJid \in SendJids, text \in SendTexts, outcome \in AllOutcomes :
    SendMessage(toJid, text, outcome)

SpecSend == Init /\ [][NextSend]_vars

\* ------------------------------------------------------------- claims
\* The frames of the ws.send calls, in call order.
SentFrames == [i \in 1..Len(wsSendCalls) |-> wsSendCalls[i].frame]

\* The lifecycle calls into the engine, in call order.
LifecycleCalls ==
  SelectSeq(nativeCalls,
            LAMBDA x : x.op \in {"notifyConnected", "notifyDisconnected"})

\* The receiveFrame calls into the engine, in call order.
ReceiveFrameCalls == SelectSeq(nativeCalls, LAMBDA x : x.op = "receiveFrame")

\* C1: once the open event is handled, the channel has received the
\* frames produced before it (frames 1..openAt, all produced while the
\* channel was not open), each once, in production order, as the first
\* sends of all; every later send is of a frame produced after the open.
C1_QueuedFramesFlushedFirstInOrder ==
  /\ openAt = -1 => wsSendCalls = <<>>
  /\ openAt >= 0 =>
       /\ Len(wsSendCalls) >= openAt
       /\ \A i \in 1..openAt :
            wsSendCalls[i].frame = i /\ wsSendCalls[i].rs = "OPEN"
       /\ \A i \in (openAt + 1)..Len(wsSendCalls) :
            wsSendCalls[i].frame > openAt

\* Two frames were queued, flushed at the open, and a later frame followed.
C1_Witness ==
  /\ openAt = 2
  /\ SentFrames = <<1, 2, 3>>
  /\ outgoingFrameQueue = <<>>

\* C2: notifyConnected and notifyDisconnected strictly alternate, beginning
\* with notifyConnected: no notifyDisconnected without an unmatched
\* notifyConnected before it.
C2_NotifyCallsAlternate ==
  \A i \in 1..Len(LifecycleCalls) :
    LifecycleCalls[i].op =
      IF i % 2 = 1 THEN "notifyConnected" ELSE "notifyDisconnected"

\* C3: every ws.send call is made while the connection state is Open (the
\* bridge's flag set, the channel opened and its close not yet handled);
\* a frame produced while the state is not Open (no channel yet, the
\* channel connecting, or closed) is appended to the queue and not sent.
C3_SendOnlyWhileOpen ==
  /\ [](\A i \in 1..Len(wsSendCalls) :
          wsSendCalls[i].open /\ wsSendCalls[i].rs \in {"OPEN", "CLOSING"})
  /\ [][(/\ nProduced' = nProduced + 1
         /\ \/ ~ConnectionOpen
            \/ readyState[ws] \in {"CONNECTING", "CLOSED"})
        => (/\ outgoingFrameQueue' = Append(outgoingFrameQueue, nProduced')
            /\ wsSendCalls' = wsSendCalls)]_vars

\* A frame was sent while open, and after the close a frame was queued.
C3_Witness ==
  /\ ws # NoWs
  /\ readyState[ws] = "CLOSED"
  /\ SentFrames = <<1>>
  /\ outgoingFrameQueue = <<2>>

\* C4: no frame is handed to a channel that has already closed; a frame
\* produced after the channel closed is in the queue.
C4_NoFrameHandedToClosedChannel ==
  \A i \in 1..Len(wsSendCalls) : wsSendCalls[i].rs = "OPEN"

\* C5: the receiveFrame calls carry the payloads of the 'message' events,
\* one call per event, in order of receipt.
C5_EveryMessageRelayedOnceInOrder ==
  /\ Len(ReceiveFrameCalls) = Len(wsMessages)
  /\ \A i \in 1..Len(wsMessages) : ReceiveFrameCalls[i].data = wsMessages[i]

\* Two messages with the same bytes were received, then relayed twice.
C5_Witness ==
  /\ Len(wsMessages) = 2
  /\ wsMessages[1] = wsMessages[2]
  /\ Len(ReceiveFrameCalls) = 2

\* Notification n decoded: no error indicator, a non-empty string, and
\* JSON.parse returned a value.
Decoded(n) ==
  /\ ~emitted[n].err
  /\ ~Falsy(emitted[n].json)
  /\ JSONParse(emitted[n].json).ok

\* Notification n carries a string JSON.parse rejects.
Malformed(n) ==
  /\ ~emitted[n].err
  /\ ~Falsy(emitted[n].json)
  /\ ~JSONParse(emitted[n].json).ok

EventOf(n) == JSONParse(emitted[n].json).value

\* Notification n decoded to an object with a non-empty type.
Tagged(n) ==
  /\ Decoded(n)
  /\ EventOf(n).kind = "object"
  /\ Truthy(EventOf(n).type)

CallsOf(n) == SelectSeq(calls, LAMBDA c : c.ev = n)

EmitsOf(n) == SelectSeq(emits, LAMBDA e : e.ev = n)

HandlersOf(cs) == [i \in 1..Len(cs) |-> cs[i].h]

\* C6: a malformed payload raises nothing out of the event callback; it
\* is reported once on the error path with the raw payload attached.
C6_MalformedPayloadNeverFaults ==
  \A n \in 1..Len(emitted) :
    Malformed(n) =>
      /\ \A i \in 1..Len(faults) : faults[i] # Fault("event", n)
      /\ Len(EmitsOf(n)) = 1
      /\ EmitsOf(n)[1].tag = "error"
      /\ EmitsOf(n)[1].arg = ParseError(emitted[n].json)

\* C7: for every emit of the event callback, every handler registered for
\* the emitted name is invoked, whether or not an earlier one raised.
C7_HandlerFailureIsolated ==
  \A i \in 1..Len(emits) :
    LET e == emits[i]
    IN HandlersOf(SelectSeq(CallsOf(e.ev), LAMBDA c : c.tag = e.tag))
         = e.hs

C9_DeliveredToExactlyTheTagsHandlers ==
  \A n \in 1..Len(emitted) :
    Tagged(n) =>
      LET T  == EventOf(n).type
          hs == EmitsOf(n)[1].hs
      IN CallsOf(n) =
           [i \in 1..Len(hs) |->
              [ev |-> n, tag |-> T, h |-> hs[i],
               arg |-> [kind |-> "data", v |-> EventOf(n).data]]]

\* C10: handler invocations and emits follow the order of the engine's
\* notifications; every notification has a dispatch of its own (none is
\* dropped), and a decoded event is emitted with its own payload and
\* reaches a handler when its name has one (none is merged into another).
C10_DispatchInEmissionOrder ==
  /\ \A i \in 1..(Len(calls) - 1) : calls[i].ev <= calls[i + 1].ev
  /\ \A i \in 1..(Len(emits) - 1) : emits[i].ev <= emits[i + 1].ev
  /\ \A n \in 1..Len(emitted) :
       LET es == EmitsOf(n)
           event == EventOf(n)
       IN /\ es # <<>>
          /\ (Decoded(n) /\ event.kind = "object") =>
               /\ es[1].tag = EventName(event)
               /\ es[1].arg = EventArg(event)
               /\ es[1].hs # <<>> =>
                    \E i \in 1..Len(calls) :
                      calls[i].ev = n /\ calls[i].tag = es[1].tag

\* The same event was sent twice and dispatched twice, in order.
C10_Witness ==
  /\ Len(emitted) = 2
  /\ emitted[1].json = QrText
  /\ emitted[2].json = QrText
  /\ listeners["PairingQrCode"] = <<"h1">>
  /\ Len(calls) = 2
  /\ calls[1].ev = 1
  /\ calls[2].ev = 2

\* One report of error e on the error channel: the emit call es is one
\* emit of "error" with e itself, and the handlers it invoked, cs, are
\* 'error' listeners in registration order, each invoked once with e.
ReportedOnce(es, cs, e) ==
  /\ Len(es) = 1
  /\ es[1].tag = "error"
  /\ es[1].arg = e
  /\ Len(cs) <= Len(es[1].hs)
  /\ \A i \in 1..Len(cs) :
       cs[i].tag = "error" /\ cs[i].arg = e /\ cs[i].h = es[1].hs[i]

\* C11: a notification that carries an error is reported to the error
\* channel once, with the engine's error itself, and nothing else is done
\* for it: whatever payload came with it, nothing is emitted under an
\* event name and no tag handler runs; on the frame callback, nothing is
\* queued or sent.
C11_ErrorNotificationReportedOnce ==
  /\ \A n \in 1..Len(emitted) :
       emitted[n].err => ReportedOnce(EmitsOf(n), CallsOf(n), EngineError)
  /\ LET es == EmitsOf(0)
         cs == CallsOf(0)
     IN /\ Len(es) = nFrameCalls - nProduced
        /\ \A i \in 1..Len(es) : es[i].tag = "error" /\ es[i].arg = EngineError
        /\ \A i \in 1..Len(cs) : cs[i].tag = "error" /\ cs[i].arg = EngineError
        /\ Len(cs) <= Len(es) * MaxListeners
        /\ Len(outgoingFrameQueue) + Len(wsSendCalls) = nProduced

\* An error came with a payload that decodes while a handler of the
\* payload's tag and an 'error' handler were registered; the frame
\* callback got an error too.  Each reached the 'error' handler once.
C11_Witness ==
  /\ Len(emitted) = 1
  /\ emitted[1].err
  /\ emitted[1].json = QrText
  /\ listeners["PairingQrCode"] = <<"h1">>
  /\ listeners["error"] = <<"h1">>
  /\ nFrameCalls = 1
  /\ nProduced = 0
  /\ HandlersOf(calls) = <<"h1", "h1">>

\* C12: a notification without an error whose payload is null or the
\* empty string is reported to the error channel once, as an empty event
\* string, and no tag handler runs for it.
C12_EmptyPayloadReportedOnce ==
  \A n \in 1..Len(emitted) :
    (~emitted[n].err /\ Falsy(emitted[n].json)) =>
      ReportedOnce(EmitsOf(n), CallsOf(n), EmptyError)

\* A null payload and an empty string were each reported to the 'error'
\* handler.
C12_Witness ==
  /\ Len(emitted) = 2
  /\ emitted[1] = Notification(FALSE, NullPayload)
  /\ emitted[2] = Notification(FALSE, <<>>)
  /\ Len(calls) = 2
  /\ calls[1].arg = EmptyError
  /\ calls[2].arg = EmptyError

\* textContent is a string that reads "ping" once surrounding white space
\* is dropped and letter case ignored.
EqualsPingFolded(textContent) ==
  /\ textContent.present
  /\ LET str == textContent.str
     IN \E i \in 1..Len(str) :
          /\ i + 3 <= Len(str)
          /\ \A k \in 1..(i - 1) : IsWhiteSpace(str[k])
          /\ \A k \in (i + 4)..Len(str) : IsWhiteSpace(str[k])
          /\ str[i] \in {"p", "P"}
          /\ str[i + 1] \in {"i", "I"}
          /\ str[i + 2] \in {"n", "N"}
          /\ str[i + 3] \in {"g", "G"}

\* C13: the sendMessage calls are, in order, one per Message event whose
\* textContent is "ping" up to white space and case, each to the event's
\* chat as user@server with the text "pong!"; an event with other text
\* or without textContent makes no call.
C13_PingAnsweredOnceWithPong ==
  LET ps == SelectSeq(calls, LAMBDA c : EqualsPingFolded(c.arg.textContent))
  IN /\ Len(nativeCalls) = Len(ps)
     /\ \A k \in 1..Len(ps) :
          LET chat == ps[k].arg.info.source.chat
          IN /\ nativeCalls[k].op = "sendMessage"
             /\ nativeCalls[k].toJid = <<chat.user, "@", chat.server>>
             /\ nativeCalls[k].text = Pong

\* " PinG\n" in the group was answered in the group; "pong" after it was
\* not answered.
C13_Witness ==
  /\ Len(calls) = 2
  /\ calls[1].arg.textContent = Text(<<" ", "P", "i", "n", "G", "\n">>)
  /\ calls[1].arg.info.source.chat = GroupJid
  /\ calls[2].arg.textContent = Text(<<"p", "o", "n", "g">>)
  /\ Len(nativeCalls) = 1
  /\ nativeCalls[1].toJid = <<"120363", "@", "g.us">>

\* The sendMessage calls into the engine, in call order.
EngineSendCalls == SelectSeq(nativeCalls, LAMBDA x : x.op = "sendMessage")

\* C16: the k-th call of the bridge's sendMessage made the k-th call of
\* the engine's sendMessage and no other, with the same jid and text, and
\* returned what that call settled to, an id or a rejection alike.
C16_SendMessagePassedThroughOnce ==
  LET es == EngineSendCalls
  IN /\ Len(es) = Len(sendMessageCalls)
     /\ \A k \in 1..Len(es) :
          /\ es[k].toJid = sendMessageCalls[k].toJid
          /\ es[k].text = sendMessageCalls[k].text
          /\ es[k].outcome = sendMessageCalls[k].result

\* A send that the engine accepted returned the id; one with a jid the
\* engine cannot parse returned the rejection, after one engine call.
C16_Witness ==
  /\ Len(sendMessageCalls) = 2
  /\ sendMessageCalls[1].toJid = JidString(UserJid)
  /\ sendMessageCalls[1].result = Resolved("3EB0A1")
  /\ sendMessageCalls[2].toJid = <<"5511999">>
  /\ sendMessageCalls[2].result = Rejected("Invalid JID")
  /\ Len(nativeCalls) = 2

\* The 'error' handler of the channel has run: its emit reached a
\* listener or, with none registered, raised.
TransportErrorReported ==
  \/ \E i \in 1..Len(calls) : calls[i].arg = TransportError
  \/ \E i \in 1..Len(faults) : faults[i].cb = "wsError"

\* C14: once the channel has reported a transport error the bridge is not
\* Open, and every frame produced from then on is put on the queue and
\* not handed to the channel.
C14_TransportErrorClosesAndQueues ==
  /\ [](TransportErrorReported => ~ConnectionOpen)
  /\ [][(TransportErrorReported /\ nProduced' = nProduced + 1) =>
          /\ wsSendCalls' = wsSendCalls
          /\ outgoingFrameQueue' = Append(outgoingFrameQueue, nProduced')]_vars

\* The notifyConnected calls into the engine, in call order.
ConnectedCalls == SelectSeq(nativeCalls, LAMBDA x : x.op = "notifyConnected")

\* C15: the open handler calls notifyConnected once, whether or not
\* frames were queued, and not before the flush has begun: when frames
\* were queued at the open, the first of them was handed to the channel
\* by a ws.send call made before the notifyConnected call.
C15_NotifyConnectedAfterFlushBegan ==
  LET cs == ConnectedCalls
  IN /\ Len(cs) = (IF openAt >= 0 THEN 1 ELSE 0)
     /\ \A k \in 1..Len(cs) :
          openAt > 0 =>
            \E i \in 1..cs[k].sends : wsSendCalls[i].frame = 1

\* Two frames were queued at the open; both were handed over before the
\* one notifyConnected call.
C15_Witness ==
  /\ openAt = 2
  /\ Len(ConnectedCalls) = 1
  /\ ConnectedCalls[1].sends = 2
  /\ SentFrames = <<1, 2>>

\* C17: between callbacks, a bridge that is Open has an empty queue.
C17_QueueEmptyWhileOpen == ConnectionOpen => outgoingFrameQueue = <<>>

\* Frame 1 was queued while connecting and flushed at the open, frame 2
\* was produced while Open and sent directly; the queue is empty.
C17_Witness ==
  /\ ConnectionOpen
  /\ readyState[ws] = "OPEN"
  /\ openAt = 1
  /\ SentFrames = <<1, 2>>
  /\ outgoingFrameQueue = <<>>

\* The 'close' handler of a channel has run.
CloseHandled == \E c \in 1..nChannels : readyState[c] = "CLOSED"

\* C18: once the close handler has run the bridge is not Open and stays
\* so, no further channel is created and no frame is handed to a channel
\* any more: a frame produced from then on is appended to the queue, and
\* nothing leaves the queue.
C18_ClosedStaysClosed ==
  /\ [](CloseHandled => ~isWsOpen)
  /\ [][CloseHandled =>
          /\ ~isWsOpen'
          /\ nChannels' = nChannels
          /\ ws' = ws
          /\ wsSendCalls' = wsSendCalls
          /\ outgoingFrameQueue' =
               (IF nProduced' = nProduced
                THEN outgoingFrameQueue
                ELSE Append(outgoingFrameQueue, nProduced'))]_vars

\* The channel opened and closed; the two frames produced after the close
\* handler ran are in the queue.
C18_Witness ==
  /\ CloseHandled
  /\ openAt = 1
  /\ SentFrames = <<1>>
  /\ outgoingFrameQueue = <<2, 3>>
  /\ ~isWsOpen

\* How many times x occurs in sequence sq.
Occurrences(sq, x) == Cardinality({i \in 1..Len(sq) : sq[i] = x})

\* C19: every frame the engine produced is either in the queue once or
\* was handed to the channel by one ws.send call, never both and never
\* neither; nothing else is in the queue or was sent.
C19_FramesConserved ==
  LET sent == SentFrames
  IN /\ \A f \in 1..nProduced :
          Occurrences(outgoingFrameQueue, f) + Occurrences(sent, f) = 1
     /\ Len(outgoingFrameQueue) + Len(sent) = nProduced

\* Of three frames, the first was flushed at the open, the second sent
\* while Open and the third queued after the close.
C19_Witness ==
  /\ nProduced = 3
  /\ openAt = 1
  /\ SentFrames = <<1, 2>>
  /\ outgoingFrameQueue = <<3>>

\* C20: no parse failure is reported for a payload that decoded to an
\* event object, whatever its handlers do.
C20_ParseFailureOnlyForUndecodable ==
  \A n \in 1..Len(emitted) :
    (Decoded(n) /\ EventOf(n).kind = "object") =>
      LET es == EmitsOf(n)
      IN \A i \in 1..Len(es) :
           es[i].tag = "error" => es[i].arg # ParseError(emitted[n].json)

\* The channels whose handlers can still run: created and not yet closed.
WiredChannels == {c \in 1..nChannels : readyState[c] # "CLOSED"}

\* C21: at most one channel is wired to the engine at a time, however
\* often start() is called, and notifyConnected is never called twice in
\* a row.
C21_AtMostOneChannelWired ==
  /\ Cardinality(WiredChannels) <= 1
  /\ \A i \in 1..(Len(LifecycleCalls) - 1) :
       ~(/\ LifecycleCalls[i].op = "notifyConnected"
         /\ LifecycleCalls[i + 1].op = "notifyConnected")

\* start() was called twice and both channels opened: the engine was told
\* twice that it is connected.
C21_DoubleConnected ==
  /\ nChannels = 2
  /\ Len(LifecycleCalls) = 2
  /\ LifecycleCalls[1].op = "notifyConnected"
  /\ LifecycleCalls[2].op = "notifyConnected"

\* C22: the open handler's flush ends after one send per queued frame, in
\* queue order, with the queue empty; frames produced later are sent
\* after the drained frames, none ahead of them.
C22_FlushSendsEachQueuedFrameOnce ==
  /\ [][(\E c \in 1..nChannels :
           readyState[c] = "CONNECTING" /\ readyState'[c] = "OPEN") =>
          /\ Len(wsSendCalls') = Len(wsSendCalls) + Len(outgoingFrameQueue)
          /\ SentFrames' = SentFrames \o outgoingFrameQueue
          /\ outgoingFrameQueue' = <<>>]_vars
  /\ [](openAt >= 0 =>
          \A i \in 1..Len(wsSendCalls) :
            (i <= openAt) <=> (wsSendCalls[i].frame <= openAt))

\* Three frames were queued at the open: the flush made three sends and
\* left the queue empty before notifyConnected was called.
C22_Witness ==
  /\ openAt = 3
  /\ nProduced = 3
  /\ SentFrames = <<1, 2, 3>>
  /\ outgoingFrameQueue = <<>>
  /\ Len(ConnectedCalls) = 1
  /\ ConnectedCalls[1].sends = 3

\* C23: a frame callback that reports an engine error changes neither
\* the queue nor the connection state nor the channel, and makes no send:
\* the frame that came with the error is not counted, queued or sent.
C23_FrameErrorLeavesTransportAlone ==
  [][(nFrameCalls' = nFrameCalls + 1 /\ Len(emits') = Len(emits) + 1) =>
       /\ outgoingFrameQueue' = outgoingFrameQueue
       /\ wsSendCalls' = wsSendCalls
       /\ nProduced' = nProduced
       /\ isWsOpen' = isWsOpen
       /\ ws' = ws
       /\ readyState' = readyState]_vars

\* While Open, after frame 1 was flushed, the frame callback got an error
\* and an 'error' listener received it: nothing more was sent or queued.
C23_Witness ==
  /\ ConnectionOpen
  /\ openAt = 1
  /\ nFrameCalls = 2
  /\ Len(EmitsOf(0)) = 1
  /\ Len(CallsOf(0)) = 1
  /\ SentFrames = <<1>>
  /\ outgoingFrameQueue = <<>>

====
